---------------------------- MODULE Spec2Model ----------------------------
(***************************************************************************)
(* A model of src/main.py, the daily content bot: it reads a target post   *)
(* count and the queue of pending calls from a spreadsheet, analyses each  *)
(* call with a generative model (with a fallback list of model names),     *)
(* writes the analysis back to the sheet, generates post content for calls *)
(* that score 6 or more and posts them to a webhook until the target count *)
(* is reached.                                                             *)
(*                                                                         *)
(* Python values are modelled as follows.  A str that the program only     *)
(* compares is a TLA+ string.  A str that the program parses (a duration   *)
(* cell, the settings cell) is a sequence of one-character strings.  A     *)
(* model response text is a sequence of tokens, each token a literal piece *)
(* of text; the text is the concatenation of its tokens.  A dict is a      *)
(* function from keys to values, None is the value None below.             *)
(***************************************************************************)
EXTENDS Integers, Sequences, FiniteSets, TLC

VARIABLES
    pc,               \* position of the program (main and the functions it calls)
    sheet,            \* the "Calls" table: sequence of rows, each the cells A..F
    settings_cell,    \* what the read of Settings!B1 gives (characters, or HttpError)
    target_posts,     \* main: target_posts
    calls,            \* main: calls
    call_i,           \* main: 0-based position of the for loop in calls
    processed_count,  \* main: processed_count
    files,            \* rows whose temporary audio file exists on disk
    file_state,       \* process_call_workflow: myfile.state.name
    polls,            \* number of genai.get_file polls of the polling loop being run
    gen_for,          \* which prompt robust_generate_content is running for
    model_i,          \* robust_generate_content: 0-based position in models_to_try
    attempts,         \* model names tried by the current robust_generate_content call
    gen_return,       \* value returned by the last robust_generate_content call
    analysis_data,    \* process_call_workflow: analysis_data
    result,           \* main: result
    outcomes,         \* history: what process_call_workflow returned for each call
    slack,            \* history: webhook posts, in order
    crash,            \* the exception that left main, "" while none has
    response_text,    \* input of the JSON clean-up step when run on its own
    parsed            \* output of the JSON clean-up step when run on its own

vars == << pc, sheet, settings_cell, target_posts, calls, call_i, processed_count,
           files, file_state, polls, gen_for, model_i, attempts, gen_return,
           analysis_data, result, outcomes, slack, crash, response_text, parsed >>

-----------------------------------------------------------------------------
(* Bounds of the model *)

\* Rows of the Calls table in a run of main.
MaxRows == 2
\* Rows of the Calls table when get_pending_calls is run on its own.
MaxScanRows == 2
\* Characters of a duration cell.
MaxDurLen == 3
\* Polls of the uploaded file before the service must answer ACTIVE or FAILED.
MaxPolls == 1
\* Tokens of a model response text.
MaxTextLen == 5

-----------------------------------------------------------------------------
(* Python values *)

None == [none |-> TRUE]
EmptyDict == << >>

\* bool(v) for the values the program tests: None and {} are falsy.
Truthy(v) == v # None /\ v # EmptyDict

\* d.get(k, default)
DictGet(d, k, default) == IF k \in DOMAIN d THEN d[k] ELSE default

HasKey(d, k) == k \in DOMAIN d

Digits == {"0", "1", "2", "3", "4", "5", "6", "7", "8", "9"}

DigitVal(c) ==
    CASE c = "0" -> 0 [] c = "1" -> 1 [] c = "2" -> 2 [] c = "3" -> 3
      [] c = "4" -> 4 [] c = "5" -> 5 [] c = "6" -> 6 [] c = "7" -> 7
      [] c = "8" -> 8 [] c = "9" -> 9

RECURSIVE DecimalValue(_)
DecimalValue(s) ==
    IF s = << >> THEN 0
    ELSE 10 * DecimalValue(SubSeq(s, 1, Len(s) - 1)) + DigitVal(s[Len(s)])

\* The strings parsed below are sequences of at most 9 characters, each an
\* ASCII digit, an ASCII letter, one of . + - _ or ASCII white space.

\* The vertical tab (ASCII 11), which has no escape: the string below holds
\* the character itself.
VerticalTab == ""

\* The characters float and int skip at both ends: ASCII 9 to 13 and 32.
WhiteSpace == {" ", "\t", "\n", VerticalTab, "\f", "\r"}

RECURSIVE LStripWS(_)
LStripWS(s) == IF s # << >> /\ Head(s) \in WhiteSpace THEN LStripWS(Tail(s)) ELSE s

RECURSIVE RStripWS(_)
RStripWS(s) ==
    IF s # << >> /\ s[Len(s)] \in WhiteSpace
    THEN RStripWS(SubSeq(s, 1, Len(s) - 1))
    ELSE s

\* The white space float and int skip at both ends.
StripWS(s) == RStripWS(LStripWS(s))

\* Lower case of the letters of inf, infinity, nan and of the exponent mark.
Lower(c) ==
    CASE c = "I" -> "i" [] c = "N" -> "n" [] c = "F" -> "f" [] c = "A" -> "a"
      [] c = "T" -> "t" [] c = "Y" -> "y" [] c = "E" -> "e" [] OTHER -> c

\* Position of the first character of s that is in cs, 0 when there is none.
FirstIndex(s, cs) ==
    IF \E k \in 1..Len(s) : s[k] \in cs
    THEN CHOOSE k \in 1..Len(s) : s[k] \in cs /\ \A j \in 1..(k - 1) : s[j] \notin cs
    ELSE 0

\* Digits with single underscores between them.
DigitGroup(s) ==
    /\ s # << >>
    /\ s[1] \in Digits
    /\ s[Len(s)] \in Digits
    /\ \A k \in 1..Len(s) : s[k] \in Digits \cup {"_"}
    /\ \A k \in 1..(Len(s) - 1) : ~(s[k] = "_" /\ s[k + 1] = "_")

DigitsOf(s) == SelectSeq(s, LAMBDA c : c # "_")

Unsigned(s) == IF s # << >> /\ s[1] \in {"+", "-"} THEN Tail(s) ELSE s
Negative(s) == s # << >> /\ s[1] = "-"

ValueError == [ok |-> FALSE, kind |-> "error", neg |-> FALSE, mant |-> 0, exp |-> 0]

\* A float as float(s) makes it: kind "fin" is the number mant * 10^exp,
\* negated when neg; kind "inf" is infinity, negated when neg; kind "nan" is
\* not a number.
Float(kind, neg, mant, exp) ==
    [ok |-> TRUE, kind |-> kind, neg |-> neg, mant |-> mant, exp |-> exp]

\* float(s): white space at the ends, a sign, then inf, infinity or nan in
\* any case, or digits with an optional point and an optional exponent;
\* ValueError for anything else (the empty string included).
ParseFloat(s) ==
    LET body == Unsigned(StripWS(s))
        neg == Negative(StripWS(s))
        low == [k \in 1..Len(body) |-> Lower(body[k])]
        e == FirstIndex(low, {"e"})
        mantStr == IF e = 0 THEN low ELSE SubSeq(low, 1, e - 1)
        expStr == IF e = 0 THEN << >> ELSE SubSeq(low, e + 1, Len(low))
        dot == FirstIndex(mantStr, {"."})
        intStr == IF dot = 0 THEN mantStr ELSE SubSeq(mantStr, 1, dot - 1)
        fracStr == IF dot = 0 THEN << >> ELSE SubSeq(mantStr, dot + 1, Len(mantStr))
        okMant == /\ intStr = << >> \/ DigitGroup(intStr)
                  /\ fracStr = << >> \/ DigitGroup(fracStr)
                  /\ intStr # << >> \/ fracStr # << >>
        okExp == e = 0 \/ DigitGroup(Unsigned(expStr))
        expVal == IF e = 0 THEN 0
                  ELSE IF Negative(expStr) THEN 0 - DecimalValue(DigitsOf(Unsigned(expStr)))
                  ELSE DecimalValue(DigitsOf(Unsigned(expStr)))
    IN  IF low \in {<<"i", "n", "f">>, <<"i", "n", "f", "i", "n", "i", "t", "y">>}
        THEN Float("inf", neg, 0, 0)
        ELSE IF low = <<"n", "a", "n">> THEN Float("nan", FALSE, 0, 0)
        ELSE IF okMant /\ okExp
             THEN Float("fin", neg, DecimalValue(DigitsOf(intStr) \o DigitsOf(fracStr)),
                        expVal - Len(DigitsOf(fracStr)))
        ELSE ValueError

\* m * 10^e > n, for m >= 1 and e >= 0.
RECURSIVE GreaterScaledUp(_, _, _)
GreaterScaledUp(m, e, n) ==
    IF m > n THEN TRUE
    ELSE IF e = 0 THEN FALSE
    ELSE GreaterScaledUp(m * 10, e - 1, n)

\* m > n * 10^k, for m >= 1 and k >= 0.
RECURSIVE GreaterScaledDown(_, _, _)
GreaterScaledDown(m, k, n) ==
    IF m <= n THEN FALSE
    ELSE IF k = 0 THEN TRUE
    ELSE GreaterScaledDown(((m - 1) \div 10) + 1, k - 1, n)

\* v > n, for a float v and a natural number n.
FloatGreater(v, n) ==
    CASE v.kind = "nan" -> FALSE
      [] v.kind = "inf" -> ~v.neg
      [] v.kind = "fin" ->
            IF v.neg \/ v.mant = 0 THEN FALSE
            ELSE IF v.exp >= 0 THEN GreaterScaledUp(v.mant, v.exp, n)
            ELSE GreaterScaledDown(v.mant, 0 - v.exp, n)

\* int(s): white space at the ends, a sign, digits; ValueError for anything else.
ParseInt(s) ==
    LET body == Unsigned(StripWS(s))
    IN  IF DigitGroup(body)
        THEN [ok |-> TRUE,
              val |-> IF Negative(StripWS(s)) THEN 0 - DecimalValue(DigitsOf(body))
                      ELSE DecimalValue(DigitsOf(body))]
        ELSE [ok |-> FALSE, val |-> 0]

-----------------------------------------------------------------------------
(* The spreadsheet *)

\* A row of the Calls table is the tuple of its cells A..F: A an id, B the
\* audio URL, C the duration (a sequence of characters), D the status, E the
\* score (<< >> when empty, <<n>> when it holds the number n), F the summary.
\* An empty text cell is "", an empty duration cell is << >>.
MkRow(dur, status, score, summary) == << "id", "https://audio", dur, status, score, summary >>

\* row[j] of the source, j counted from 0.
Cell(row, j) == row[j + 1]

\* Whether column j (from 0) of a row of the table is empty, for the columns A..D.
IsBlank(row, j) == IF j = 2 THEN Cell(row, j) = << >> ELSE Cell(row, j) = ""

\* values().get(range="Calls!A:D") returns each row's cells A..D without its
\* trailing empty cells: a row whose status cell is empty has fewer than 4
\* elements, a row whose duration cell alone is empty has an empty element.
RECURSIVE TrimRow(_, _)
TrimRow(row, n) ==
    IF n = 0 THEN << >>
    ELSE IF IsBlank(row, n - 1) THEN TrimRow(row, n - 1)
    ELSE SubSeq(row, 1, n)

ApiValues(sh) == [k \in 1..Len(sh) |-> TrimRow(sh[k], 4)]

DefaultTarget == 2

\* values().get(range="Settings!B1").execute() raises: the exception in
\* place of the cell (no cell is a sequence of this one element).
HttpError == << "HttpError" >>

\* get_settings, of what the read of Settings!B1 gives (the cell, or the
\* exception of the read): int(rows[0][0]) if rows else 2, and 2 on any
\* exception, that of the read and that of int.
get_settings(read) ==
    IF read = HttpError THEN DefaultTarget
    ELSE IF read = << >> THEN DefaultTarget
    ELSE IF ParseInt(read).ok THEN ParseInt(read).val
    ELSE DefaultTarget

DurationThreshold == 300
DefaultDuration == 600

\* Spreadsheet row number of the row at position i (from 0) of the values.
SheetRowNumber(i) == i + 1

\* duration = float(row[2]) if len(row) > 2 else 600
DurationOf(row) ==
    IF Len(row) > 2 THEN ParseFloat(Cell(row, 2))
    ELSE Float("fin", FALSE, DefaultDuration, 0)

\* The body of the for loop of get_pending_calls: the entries the row at
\* position i adds to pending (one or none; an exception of float is passed).
PendingOfRow(row, i) ==
    IF Len(row) > 3 /\ Cell(row, 3) = "Pending"
    THEN IF DurationOf(row).ok /\ FloatGreater(DurationOf(row), DurationThreshold)
         THEN << [row |-> SheetRowNumber(i), url |-> Cell(row, 1)] >>
         ELSE << >>
    ELSE << >>

RECURSIVE PendingFrom(_, _)
PendingFrom(rows, i) ==
    IF i >= Len(rows) THEN << >>
    ELSE PendingOfRow(rows[i + 1], i) \o PendingFrom(rows, i + 1)

get_pending_calls(sh) == PendingFrom(ApiValues(sh), 0)

-----------------------------------------------------------------------------
(* Model responses and their clean-up *)

\* BQ stands for the backquote character, which a TLA+ string cannot hold:
\* the two tokens are the three backquotes followed by json, and the three
\* backquotes alone.
FenceJson == "BQBQBQjson"
Fence == "BQBQBQ"
Newline == "\n"
LBrace == "{"
RBrace == "}"
Prose == "Sure"

\* The text between the braces of a JSON object, and the dict json.loads
\* makes of the object.
BodyScore7 == "\"score\":7"
BodyA5 == "\"transcript_summary\":\"s\",\"pain_point\":\"p\",\"score\":5"
BodyA6 == "\"transcript_summary\":\"s\",\"pain_point\":\"p\",\"score\":6"
BodyA9 == "\"transcript_summary\":\"s\",\"pain_point\":\"p\",\"score\":9"
BodyNoScore == "\"transcript_summary\":\"s\",\"pain_point\":\"p\""
BodyPosts == "\"hooks\":[\"h\"],\"english_slides\":[\"e\"],\"tamil_slides\":[\"t\"]"
BodyNoHooks == "\"english_slides\":[\"e\"],\"tamil_slides\":[\"t\"]"

Analysis(score) ==
    ("transcript_summary" :> "s") @@ ("pain_point" :> "p") @@ ("score" :> score)

BodyObject(b) ==
    CASE b = BodyScore7 -> ("score" :> 7)
      [] b = BodyA5 -> Analysis(5)
      [] b = BodyA6 -> Analysis(6)
      [] b = BodyA9 -> Analysis(9)
      [] b = BodyNoScore -> ("transcript_summary" :> "s") @@ ("pain_point" :> "p")
      [] b = BodyPosts ->
            ("hooks" :> <<"h">>) @@ ("english_slides" :> <<"e">>) @@ ("tamil_slides" :> <<"t">>)
      [] b = BodyNoHooks -> ("english_slides" :> <<"e">>) @@ ("tamil_slides" :> <<"t">>)

Bodies == {BodyScore7, BodyA5, BodyA6, BodyA9, BodyNoScore, BodyPosts, BodyNoHooks}

JSONDecodeError == [error |-> "JSONDecodeError"]

\* text.replace(old, ""), old one of the two fence tokens.  No token but the
\* fences holds a backquote, and "json" follows backquotes only inside the
\* token FenceJson, so the occurrences of old in the text are its tokens.
Replace(text, old) == SelectSeq(text, LAMBDA t : t # old)

RECURSIVE LStrip(_)
LStrip(text) ==
    IF text # << >> /\ Head(text) = Newline THEN LStrip(Tail(text)) ELSE text

RECURSIVE RStrip(_)
RStrip(text) ==
    IF text # << >> /\ text[Len(text)] = Newline
    THEN RStrip(SubSeq(text, 1, Len(text) - 1))
    ELSE text

\* text.strip()
Strip(text) == RStrip(LStrip(text))

\* json.loads(text): white space between the tokens of JSON is skipped; the
\* text must then be one object, {} or { body }.
JsonLoads(text) ==
    LET t == SelectSeq(text, LAMBDA x : x # Newline)
    IN  IF t = << LBrace, RBrace >> THEN EmptyDict
        ELSE IF Len(t) = 3 /\ t[1] = LBrace /\ t[2] \in Bodies /\ t[3] = RBrace
             THEN BodyObject(t[2])
        ELSE JSONDecodeError

\* The clean-up with the second replace left out.
CleanText_JsonFenceOnly(text) == Strip(Replace(text, FenceJson))

\* clean_text = response.text.replace(FenceJson, "").replace(Fence, "").strip()
CleanText(text) == Strip(Replace(Replace(text, FenceJson), Fence))

\* json.loads(clean_text)
ExtractJson(text) == JsonLoads(CleanText(text))

models_to_try ==
    << "gemini-1.5-flash", "gemini-1.5-flash-001", "gemini-1.5-pro",
       "gemini-1.5-pro-001", "gemini-pro" >>

-----------------------------------------------------------------------------
(* Inputs of a run of main *)

FreshRow == MkRow(<<"6", "0", "0">>, "Pending", << >>, "")
RescoredRow == MkRow(<<"6", "0", "0">>, "Pending", <<3>>, "old")
ProcessedRow == MkRow(<<"6", "0", "0">>, "Processed", <<8>>, "old")

MainRows == {FreshRow, RescoredRow, ProcessedRow}

MainSheets == UNION {[1..n -> MainRows] : n \in 1..MaxRows}

\* What the read of Settings!B1 gives: the cell empty, not a number, 0, 1
\* between white space, -1; or the read raises.
SettingsCells ==
    {<< >>, <<"x">>, <<"0">>, <<" ", "1", VerticalTab>>, <<"-", "1">>, HttpError}

\* The bodies a model answers the two prompts with.
AnalysisBodies == {BodyScore7, BodyA5, BodyA6, BodyA9, BodyNoScore}
ContentBodies == {BodyPosts, BodyNoHooks}

\* An object alone, an object in fences, an object after a word of prose.
TextsOf(b) ==
    { << LBrace, b, RBrace >>,
      << FenceJson, Newline, LBrace, b, RBrace, Newline, Fence >>,
      << Prose, LBrace, b, RBrace >> }

\* What model.generate_content does: it raises, or it returns a response with a text.
Responses(prompt) ==
    {[raised |-> TRUE, text |-> << >>]}
    \cup {[raised |-> FALSE, text |-> t] :
            t \in {<< LBrace, RBrace >>}
                  \cup UNION {TextsOf(b) : b \in (IF prompt = "analysis"
                                                   THEN AnalysisBodies
                                                   ELSE ContentBodies)}}

-----------------------------------------------------------------------------
(* A run of main *)

StatusOK == 200
ScoreThreshold == 6

CurCall == calls[call_i + 1]
row_num == CurCall.row

pure_vars == << response_text, parsed >>
local_vars == << file_state, polls, gen_for, model_i, attempts, gen_return, analysis_data >>

Init ==
    /\ pc = "start"
    /\ sheet \in MainSheets
    /\ settings_cell \in SettingsCells
    /\ target_posts = 0
    /\ calls = << >>
    /\ call_i = 0
    /\ processed_count = 0
    /\ files = {}
    /\ file_state = ""
    /\ polls = 0
    /\ gen_for = ""
    /\ model_i = 0
    /\ attempts = << >>
    /\ gen_return = None
    /\ analysis_data = None
    /\ result = None
    /\ outcomes = << >>
    /\ slack = << >>
    /\ crash = ""
    /\ response_text = << >>
    /\ parsed = None

\* main: target_posts = get_settings()
GetSettings ==
    /\ pc = "start"
    /\ target_posts' = get_settings(settings_cell)
    /\ pc' = "get_calls"
    /\ UNCHANGED << sheet, settings_cell, calls, call_i, processed_count, files,
                    local_vars, result, outcomes, slack, crash, pure_vars >>

\* main: calls = get_pending_calls(); processed_count = 0
GetPendingCalls ==
    /\ pc = "get_calls"
    /\ calls' = get_pending_calls(sheet)
    /\ call_i' = 0
    /\ processed_count' = 0
    /\ pc' = "loop"
    /\ UNCHANGED << sheet, settings_cell, target_posts, files, local_vars, result,
                    outcomes, slack, crash, pure_vars >>

\* The break with > for >=.
TargetReached_Strict(count, target) == count > target

\* get_pending_calls: values().get(...).execute() raises; the call is in no
\* try, so the exception leaves main before the loop.
GetPendingCallsRaises ==
    /\ pc = "get_calls"
    /\ crash' = "values.get"
    /\ pc' = "crashed"
    /\ UNCHANGED << sheet, settings_cell, target_posts, calls, call_i,
                    processed_count, files, local_vars, result, outcomes, slack,
                    pure_vars >>

\* if processed_count >= target_posts: break
TargetReached(count, target) == count >= target

\* main: the head of the for loop, with the break at its top.
LoopHead ==
    /\ pc = "loop"
    /\ pc' = IF call_i >= Len(calls) \/ TargetReached(processed_count, target_posts)
             THEN "done"
             ELSE "download"
    /\ UNCHANGED << sheet, settings_cell, target_posts, calls, call_i,
                    processed_count, files, local_vars, result, outcomes, slack,
                    crash, pure_vars >>

\* process_call_workflow is left: its locals go.
LocalsGo ==
    /\ file_state' = ""
    /\ polls' = 0
    /\ gen_for' = ""
    /\ model_i' = 0
    /\ attempts' = << >>
    /\ gen_return' = None
    /\ analysis_data' = None

\* A return of process_call_workflow: the locals go, main gets the value.
Return(value, why) ==
    /\ result' = value
    /\ outcomes' = Append(outcomes, [row |-> row_num, why |-> why, result |-> value])
    /\ LocalsGo
    /\ pc' = "check_result"

\* An exception that nothing catches leaves main.
Raise(what) ==
    /\ crash' = what
    /\ pc' = "crashed"

\* A return or a caught exception inside the try, through the finally:
\*     if os.path.exists(tmp_path): os.remove(tmp_path)
\* When os.remove returns the file is gone and main gets the value.  The
\* finally has no handler: when os.remove raises, its exception takes the
\* place of the return, leaves process_call_workflow and main, and the file
\* stays on disk.
Cleanup(value, why) ==
    \E removed \in BOOLEAN :
       IF removed
       THEN /\ files' = files \ {row_num}
            /\ Return(value, why)
            /\ UNCHANGED crash
       ELSE /\ Raise("os.remove")
            /\ LocalsGo
            /\ UNCHANGED << files, result, outcomes >>

\* resp = requests.get(audio_url); a status other than 200 returns None.
DownloadAudio ==
    /\ pc = "download"
    /\ \E status \in {StatusOK, 404} :
          IF status # StatusOK
          THEN /\ Return(None, "download")
               /\ UNCHANGED << sheet, settings_cell, target_posts, calls, call_i,
                               processed_count, files, slack, crash, pure_vars >>
          ELSE /\ pc' = "tmpfile"
               /\ UNCHANGED << sheet, settings_cell, target_posts, calls, call_i,
                               processed_count, files, local_vars, result, outcomes,
                               slack, crash, pure_vars >>

\* requests.get raises (no connection): the call is outside the try.
DownloadRaises ==
    /\ pc = "download"
    /\ Raise("requests.get")
    /\ UNCHANGED << sheet, settings_cell, target_posts, calls, call_i,
                    processed_count, files, local_vars, result, outcomes, slack,
                    pure_vars >>

\* with tempfile.NamedTemporaryFile(delete=False, suffix=".mp3") as tmp:
\*     tmp.write(resp.content); tmp_path = tmp.name
\* The block is before the try, so an exception in it leaves
\* process_call_workflow and main.  When the constructor raises no file has
\* been made.  When it returns the file exists, and delete=False keeps it when
\* the with block is left, also by an exception of write (a full disk).
WriteTempFile ==
    /\ pc = "tmpfile"
    /\ \E outcome \in {"written", "write raises", "constructor raises"} :
          /\ files' = IF outcome = "constructor raises" THEN files ELSE files \cup {row_num}
          /\ IF outcome = "written"
             THEN /\ pc' = "upload"
                  /\ UNCHANGED crash
             ELSE Raise(IF outcome = "write raises" THEN "tmp.write" ELSE "NamedTemporaryFile")
    /\ UNCHANGED << sheet, settings_cell, target_posts, calls, call_i,
                    processed_count, local_vars, result, outcomes, slack, pure_vars >>

FileStates == {"PROCESSING", "ACTIVE", "FAILED"}

\* myfile = genai.upload_file(tmp_path)
UploadFile ==
    /\ pc = "upload"
    /\ file_state' \in FileStates
    /\ pc' = "poll"
    /\ UNCHANGED << sheet, settings_cell, target_posts, calls, call_i,
                    processed_count, files, polls, gen_for, model_i, attempts,
                    gen_return, analysis_data, result, outcomes, slack, crash,
                    pure_vars >>

\* genai.upload_file raises: except Exception returns None, through the finally.
UploadRaises ==
    /\ pc = "upload"
    /\ Cleanup(None, "upload")
    /\ UNCHANGED << sheet, settings_cell, target_posts, calls, call_i,
                    processed_count, slack, pure_vars >>

\* while myfile.state.name == "PROCESSING": time.sleep(2); myfile = genai.get_file(...)
\* The service answers PROCESSING at most MaxPolls times.
WaitForProcessing ==
    /\ pc = "poll"
    /\ file_state = "PROCESSING"
    /\ file_state' \in (IF polls < MaxPolls THEN FileStates ELSE FileStates \ {"PROCESSING"})
    /\ polls' = polls + 1
    /\ UNCHANGED << pc, sheet, settings_cell, target_posts, calls, call_i,
                    processed_count, files, gen_for, model_i, attempts, gen_return,
                    analysis_data, result, outcomes, slack, crash, pure_vars >>

\* genai.get_file raises inside the loop.
PollRaises ==
    /\ pc = "poll"
    /\ file_state = "PROCESSING"
    /\ Cleanup(None, "poll")
    /\ UNCHANGED << sheet, settings_cell, target_posts, calls, call_i,
                    processed_count, slack, pure_vars >>

\* The loop is left in any state but PROCESSING:
\* analysis_data = robust_generate_content(prompt_analysis, myfile)
StartAnalysis ==
    /\ pc = "poll"
    /\ file_state # "PROCESSING"
    /\ gen_for' = "analysis"
    /\ model_i' = 0
    /\ attempts' = << >>
    /\ polls' = 0
    /\ pc' = "gen"
    /\ UNCHANGED << sheet, settings_cell, target_posts, calls, call_i,
                    processed_count, files, file_state, gen_return,
                    analysis_data, result, outcomes, slack, crash, pure_vars >>

\* Where robust_generate_content returns to.
ReturnPoint(prompt) == IF prompt = "analysis" THEN "after_analysis" ELSE "after_content"

\* A loop that steps over a model after a failure.
NextModel_Skip(i) == i + 2

\* for model_name in models_to_try: the position after a failed attempt.
NextModel(i) == i + 1

\* A placeholder result in place of None.
ExhaustedValue_Placeholder ==
    ("score" :> 0) @@ ("transcript_summary" :> "Error") @@ ("pain_point" :> "Error")

\* return None, after the loop.
ExhaustedValue == None

\* robust_generate_content, one turn of the loop: generate_content with the
\* model at model_i, then the clean-up and json.loads of the response text.
\* An exception of either goes on to the next model, a parsed value is returned.
GenAttempt ==
    /\ pc = "gen"
    /\ model_i < Len(models_to_try)
    /\ attempts' = Append(attempts, models_to_try[model_i + 1])
    /\ \E resp \in Responses(gen_for) :
          LET value == IF resp.raised THEN JSONDecodeError ELSE ExtractJson(resp.text)
          IN  IF resp.raised \/ value = JSONDecodeError
              THEN /\ model_i' = NextModel(model_i)
                   /\ UNCHANGED << pc, gen_return >>
              ELSE /\ gen_return' = value
                   /\ pc' = ReturnPoint(gen_for)
                   /\ UNCHANGED model_i
    /\ UNCHANGED << sheet, settings_cell, target_posts, calls, call_i,
                    processed_count, files, file_state, polls, gen_for,
                    analysis_data, result, outcomes, slack, crash, pure_vars >>

\* robust_generate_content: the list is exhausted.
GenExhausted ==
    /\ pc = "gen"
    /\ model_i >= Len(models_to_try)
    /\ gen_return' = ExhaustedValue
    /\ pc' = ReturnPoint(gen_for)
    /\ UNCHANGED << sheet, settings_cell, target_posts, calls, call_i,
                    processed_count, files, file_state, polls, gen_for, model_i,
                    attempts, analysis_data, result, outcomes, slack, crash,
                    pure_vars >>

\* if not analysis_data: return None
CheckAnalysis ==
    /\ pc = "after_analysis"
    /\ IF ~Truthy(gen_return)
       THEN /\ Cleanup(None, IF model_i >= Len(models_to_try)
                              THEN "all_models_failed"
                              ELSE "empty_analysis")
       ELSE /\ analysis_data' = gen_return
            /\ pc' = "writeback"
            /\ UNCHANGED << files, file_state, polls, gen_for, model_i, attempts,
                            gen_return, result, outcomes, crash >>
    /\ UNCHANGED << sheet, settings_cell, target_posts, calls, call_i,
                    processed_count, slack, pure_vars >>

\* The update with the range "Calls!D:F", which starts at the first row.
UpdateRange_TopOfColumn(sh, r, vals) ==
    [sh EXCEPT ![1] = [@ EXCEPT ![4] = vals[1], ![5] = vals[2], ![6] = vals[3]]]

\* values().update(range=f"Calls!D{row_num}:F{row_num}", body={"values": [vals]})
UpdateRange(sh, r, vals) ==
    [sh EXCEPT ![r] = [@ EXCEPT ![4] = vals[1], ![5] = vals[2], ![6] = vals[3]]]

\* ["Processed", analysis_data.get('score', 0), analysis_data.get('transcript_summary', '')]
WriteBackValues(d) ==
    << "Processed", << DictGet(d, "score", 0) >>, DictGet(d, "transcript_summary", "") >>

\* 4. Save Transcript to Sheet
WriteBack ==
    /\ pc = "writeback"
    /\ sheet' = UpdateRange(sheet, row_num, WriteBackValues(analysis_data))
    /\ pc' = "score_check"
    /\ UNCHANGED << settings_cell, target_posts, calls, call_i, processed_count,
                    files, local_vars, result, outcomes, slack, crash, pure_vars >>

\* The update raises: except Exception returns None, through the finally.
WriteBackRaises ==
    /\ pc = "writeback"
    /\ Cleanup(None, "writeback")
    /\ UNCHANGED << sheet, settings_cell, target_posts, calls, call_i,
                    processed_count, slack, pure_vars >>

\* The test with a threshold of 5.
ScoreQualifies_Low(d) == DictGet(d, "score", 0) >= ScoreThreshold - 1

\* if analysis_data.get('score', 0) >= 6
ScoreQualifies(d) == DictGet(d, "score", 0) >= ScoreThreshold

\* 5. GENERATE POSTS: below the threshold posts stays None and the result is
\* returned; otherwise the prompt is formatted (a KeyError of a missing
\* pain_point or transcript_summary is caught by except Exception) and
\* robust_generate_content(prompt_content) is called.
ScoreCheck ==
    /\ pc = "score_check"
    /\ IF ~ScoreQualifies(analysis_data)
       THEN /\ Cleanup([analysis |-> analysis_data, posts |-> None], "ok")
       ELSE IF ~(HasKey(analysis_data, "pain_point")
                 /\ HasKey(analysis_data, "transcript_summary"))
       THEN /\ Cleanup(None, "KeyError")
       ELSE /\ gen_for' = "content"
            /\ model_i' = 0
            /\ attempts' = << >>
            /\ pc' = "gen"
            /\ UNCHANGED << files, file_state, polls, gen_return, analysis_data,
                            result, outcomes, crash >>
    /\ UNCHANGED << sheet, settings_cell, target_posts, calls, call_i,
                    processed_count, slack, pure_vars >>

\* return {"analysis": analysis_data, "posts": post_content}
ReturnResult ==
    /\ pc = "after_content"
    /\ Cleanup([analysis |-> analysis_data, posts |-> gen_return], "ok")
    /\ UNCHANGED << sheet, settings_cell, target_posts, calls, call_i,
                    processed_count, slack, pure_vars >>

\* if result and result['posts']
ShouldNotify(res) == res # None /\ Truthy(res.posts)

\* The keys the message is built from.
MessageKeysPresent(res) ==
    /\ HasKey(res.analysis, "pain_point")
    /\ HasKey(res.analysis, "score")
    /\ HasKey(res.posts, "hooks")
    /\ HasKey(res.posts, "english_slides")
    /\ HasKey(res.posts, "tamil_slides")

\* main: the test of the result and the building of the message; a missing
\* key raises KeyError, which nothing catches.
CheckResult ==
    /\ pc = "check_result"
    /\ IF ~ShouldNotify(result)
       THEN /\ call_i' = call_i + 1
            /\ pc' = "loop"
            /\ UNCHANGED crash
       ELSE IF ~MessageKeysPresent(result)
       THEN /\ Raise("KeyError")
            /\ UNCHANGED call_i
       ELSE /\ pc' = "post"
            /\ UNCHANGED << call_i, crash >>
    /\ UNCHANGED << sheet, settings_cell, target_posts, calls, processed_count,
                    files, local_vars, result, outcomes, slack, pure_vars >>

\* requests.post(SLACK_WEBHOOK_URL, json={"blocks": blocks}); processed_count += 1
\* The response is not looked at.
PostToSlack ==
    /\ pc = "post"
    /\ \E status \in {StatusOK, 500} :
          slack' = Append(slack, [row |-> row_num, status |-> status])
    /\ processed_count' = processed_count + 1
    /\ call_i' = call_i + 1
    /\ pc' = "loop"
    /\ UNCHANGED << sheet, settings_cell, target_posts, calls, files, local_vars,
                    result, outcomes, crash, pure_vars >>

\* requests.post raises (no connection): nothing catches it.
PostRaises ==
    /\ pc = "post"
    /\ Raise("requests.post")
    /\ UNCHANGED << sheet, settings_cell, target_posts, calls, call_i,
                    processed_count, files, local_vars, result, outcomes, slack,
                    pure_vars >>

Next ==
    \/ GetSettings
    \/ GetPendingCalls
    \/ GetPendingCallsRaises
    \/ LoopHead
    \/ DownloadAudio
    \/ DownloadRaises
    \/ WriteTempFile
    \/ UploadFile
    \/ UploadRaises
    \/ WaitForProcessing
    \/ PollRaises
    \/ StartAnalysis
    \/ GenAttempt
    \/ GenExhausted
    \/ CheckAnalysis
    \/ WriteBack
    \/ WriteBackRaises
    \/ ScoreCheck
    \/ ReturnResult
    \/ CheckResult
    \/ PostToSlack
    \/ PostRaises

Spec == Init /\ [][Next]_vars

\* The for loop of robust_generate_content runs on while it has a step to
\* take: a call to the service returns or raises, then the loop goes on.
FairSpec == Spec /\ WF_vars(GenAttempt \/ GenExhausted)

-----------------------------------------------------------------------------
(* get_pending_calls on its own *)

DurChars == {"0", "1", "3", "x", ".", "e", "-", " "}

\* The duration cells: every string of at most MaxDurLen of the characters
\* above (the empty cell included), the cells 250, 600, inf and nan, and 600
\* and 250 with a vertical tab or a tab before or after.
DurStrings ==
    UNION {[1..n -> DurChars] : n \in 0..MaxDurLen}
    \cup {<<"2", "5", "0">>, <<"6", "0", "0">>, <<"i", "n", "f">>, <<"n", "a", "n">>}
    \cup {<<VerticalTab, "6", "0", "0">>, <<"6", "0", "0", VerticalTab>>,
          <<VerticalTab, "2", "5", "0", "\t">>, << VerticalTab >>}

ScanStatuses == {"Pending", "pending", "Processed", ""}

VariedRow(d, st) == MkRow(d, st, << >>, "")

\* A table of n rows: row k has any duration and status, the other rows are
\* pending or processed calls of 600 seconds.
ScanSheet(n, k, r, p) == [j \in 1..n |-> IF j = k THEN r ELSE p[j]]

IdleRun ==
    /\ settings_cell = << >>
    /\ target_posts = 0
    /\ call_i = 0
    /\ processed_count = 0
    /\ files = {}
    /\ file_state = ""
    /\ polls = 0
    /\ gen_for = ""
    /\ model_i = 0
    /\ attempts = << >>
    /\ gen_return = None
    /\ analysis_data = None
    /\ result = None
    /\ outcomes = << >>
    /\ slack = << >>
    /\ crash = ""

idle_vars == << settings_cell, target_posts, call_i, processed_count, files,
                file_state, polls, gen_for, model_i, attempts, gen_return,
                analysis_data, result, outcomes, slack, crash >>

InitScan ==
    /\ pc = "scan"
    /\ \E n \in 1..MaxScanRows, k \in 1..MaxScanRows :
         \E d \in DurStrings, st \in ScanStatuses :
           \E p \in [1..n -> {FreshRow, ProcessedRow}] :
              sheet = ScanSheet(n, k, VariedRow(d, st), p)
    /\ calls = << >>
    /\ response_text = << >>
    /\ parsed = None
    /\ IdleRun

ScanCalls ==
    /\ pc = "scan"
    /\ calls' = get_pending_calls(sheet)
    /\ pc' = "scanned"
    /\ UNCHANGED << sheet, idle_vars, pure_vars >>

SpecScan == InitScan /\ [][ScanCalls]_vars

-----------------------------------------------------------------------------
(* The clean-up of a response text on its own *)

Tokens == {FenceJson, Fence, Newline, LBrace, RBrace, Prose, BodyScore7}

\* The text of the round trip: the object {"score":7} in a json fence.
ExampleText == << FenceJson, Newline, LBrace, BodyScore7, RBrace, Newline, Fence >>

Texts == UNION {[1..n -> Tokens] : n \in 0..MaxTextLen} \cup {ExampleText}

InitExtract ==
    /\ pc = "extract"
    /\ response_text \in Texts
    /\ parsed = None
    /\ sheet = << >>
    /\ calls = << >>
    /\ IdleRun

CleanAndParse ==
    /\ pc = "extract"
    /\ parsed' = ExtractJson(response_text)
    /\ pc' = "extracted"
    /\ UNCHANGED << sheet, calls, idle_vars, response_text >>

SpecExtract == InitExtract /\ [][CleanAndParse]_vars

-----------------------------------------------------------------------------
(* Notions the properties are stated in *)

Min(a, b) == IF a <= b THEN a ELSE b
Max(a, b) == IF a >= b THEN a ELSE b

RowsOf(s) == [k \in 1..Len(s) |-> s[k].row]

\* The rows a webhook post was made for.
NotifiedRows == {slack[k].row : k \in 1..Len(slack)}

\* The calls process_call_workflow returned an analysis for.
IsAnalyzed(o) == o.result # None
Analyzed == SelectSeq(outcomes, IsAnalyzed)

ScoreOf(o) == DictGet(o.result.analysis, "score", 0)

\* The analyzed calls whose content generation returned content.
HasContent(o) == o.result # None /\ Truthy(o.result.posts)

\* A stable sort by score, highest first.
RECURSIVE InsertByScore(_, _)
InsertByScore(s, x) ==
    IF s = << >> THEN << x >>
    ELSE IF ScoreOf(Head(s)) >= ScoreOf(x) THEN << Head(s) >> \o InsertByScore(Tail(s), x)
    ELSE << x >> \o s

RECURSIVE SortByScore(_)
SortByScore(s) ==
    IF s = << >> THEN << >>
    ELSE InsertByScore(SortByScore(SubSeq(s, 1, Len(s) - 1)), s[Len(s)])

\* The Ranker of the specification: the first target_posts analyzed calls by score.
TopRanked == SubSeq(SortByScore(Analyzed), 1, Min(Max(target_posts, 0), Len(Analyzed)))

IsPrefix(s, t) == Len(s) <= Len(t) /\ \A k \in 1..Len(s) : s[k] = t[k]

-----------------------------------------------------------------------------
(* C1 *)

\* C1 as stated: when main has finished, the notified calls are the calls with
\* generated content among the first target_posts analyzed calls in descending
\* order of score (ties in scan order).
C1_Ranked ==
    pc = "done" =>
        NotifiedRows = {TopRanked[k].row : k \in {j \in 1..Len(TopRanked) : HasContent(TopRanked[j])}}

\* C1 amended: calls are taken in scan order and never ranked.  Every notified
\* call was analyzed with a score of at least 6 and had content generated, at
\* most target_posts calls are notified (none for a target below 1), the
\* notified calls are in scan order the calls with generated content, and
\* when main finishes every call with generated content has been notified.
C1_ScanOrder ==
    /\ \A k \in 1..Len(slack) :
          \E j \in 1..Len(outcomes) :
             /\ outcomes[j].row = slack[k].row
             /\ HasContent(outcomes[j])
             /\ ScoreOf(outcomes[j]) >= ScoreThreshold
    /\ pc \notin {"start", "get_calls"} => Len(slack) <= Max(target_posts, 0)
    /\ IsPrefix(RowsOf(slack), RowsOf(SelectSeq(outcomes, HasContent)))
    /\ pc = "done" => RowsOf(slack) = RowsOf(SelectSeq(outcomes, HasContent))

\* A call of score 6 was notified and filled the target, after a call of score
\* 9 whose content generation failed.
C1_Witness ==
    /\ pc = "done"
    /\ Len(outcomes) = 2
    /\ Len(slack) = 1
    /\ slack[1].row = outcomes[2].row
    /\ IsAnalyzed(outcomes[1]) /\ ScoreOf(outcomes[1]) = 9
    /\ ScoreOf(outcomes[2]) = 6

-----------------------------------------------------------------------------
(* C2 *)

Degraded == ("score" :> 0) @@ ("transcript_summary" :> "Error") @@ ("pain_point" :> "Error")

\* C2 as stated: a call whose analysis failed with every model has the result
\* {score 0, summary "Error", pain point "Error"} and its row is written back
\* as Processed.
C2_Degraded ==
    \A j \in 1..Len(outcomes) :
       outcomes[j].why = "all_models_failed" =>
          /\ outcomes[j].result # None
          /\ outcomes[j].result.analysis = Degraded
          /\ sheet[outcomes[j].row][4] = "Processed"

\* C2 amended: when every model of the list fails for the analysis of a call,
\* robust_generate_content returns None, process_call_workflow returns None
\* without writing the row back (the row stays Pending, as it was), no
\* notification is sent for the call, and main goes on to the next queued
\* call without raising; the one exception that can leave this exit is that
\* of os.remove in the finally, which ends main with the file on disk.
C2_NoneAndProceeds ==
    /\ []((pc = "after_analysis" /\ model_i >= Len(models_to_try)) => gen_return = None)
    /\ [][(pc = "after_analysis" /\ model_i >= Len(models_to_try)) =>
             /\ sheet' = sheet
             /\ slack' = slack
             /\ \/ /\ pc' = "check_result"
                   /\ result' = None
                   /\ outcomes' = Append(outcomes, [row |-> row_num,
                                                    why |-> "all_models_failed",
                                                    result |-> None])
                   /\ files' = files \ {row_num}
                \/ /\ pc' = "crashed"
                   /\ crash' = "os.remove"
                   /\ files' = files
                   /\ outcomes' = outcomes]_vars
    /\ [](\A j \in 1..Len(outcomes) :
             outcomes[j].why = "all_models_failed" =>
                /\ outcomes[j].result = None
                /\ sheet[outcomes[j].row] \in {FreshRow, RescoredRow}
                /\ outcomes[j].row \notin NotifiedRows
                /\ (j = Len(outcomes) /\ pc = "check_result") => ~ShouldNotify(result)
                /\ (j = Len(outcomes) /\ Len(outcomes) = call_i + 1) => pc # "crashed")

\* Every model failed for the first call and main went on to analyze the second.
C2_Witness ==
    /\ Len(outcomes) = 2
    /\ outcomes[1].why = "all_models_failed"
    /\ IsAnalyzed(outcomes[2])

-----------------------------------------------------------------------------
(* C3 *)

\* C3 as stated: outside process_call_workflow (before its temporary file is
\* made, after it has returned, after it has raised) no temporary file exists.
C3_NoTempFileLeft ==
    pc \in {"loop", "download", "check_result", "post", "done", "crashed"} => files = {}

-----------------------------------------------------------------------------
(* C4 *)

\* The duration the claim gives a row: the parsed cell when present, 600 when
\* the cell is missing.
EffectiveDuration(row) ==
    IF Cell(row, 2) = << >> THEN Float("fin", FALSE, DefaultDuration, 0)
    ELSE ParseFloat(Cell(row, 2))

\* C4 as stated: a row whose status is exactly "Pending" is in the result of
\* get_pending_calls if and only if its effective duration (the parsed cell,
\* 600 for a missing cell) is above 300; a row of unparsable duration is left out.
C4_ThresholdRule ==
    pc = "scanned" =>
        \A k \in 1..Len(sheet) :
           Cell(sheet[k], 3) = "Pending" =>
              ((\E c \in 1..Len(calls) : calls[c].row = k)
                  <=> (EffectiveDuration(sheet[k]).ok
                       /\ FloatGreater(EffectiveDuration(sheet[k]), DurationThreshold)))

-----------------------------------------------------------------------------
(* C5 *)

\* C5 as stated: for a file whose state is FAILED no generation request is issued.
C5_FailedFileNotAnalyzed == file_state = "FAILED" => attempts = << >>

-----------------------------------------------------------------------------
(* C6 *)

\* C6 as stated: a webhook post that raises does not abort main.
C6_PostFailureNotFatal == ~(pc = "crashed" /\ crash = "requests.post")

-----------------------------------------------------------------------------
(* C7 *)

HasBraces(t) ==
    /\ \E k \in 1..Len(t) : t[k] = LBrace
    /\ \E k \in 1..Len(t) : t[k] = RBrace

FirstLBrace(t) == CHOOSE k \in 1..Len(t) : t[k] = LBrace /\ \A j \in 1..(k - 1) : t[j] # LBrace
LastRBrace(t) == CHOOSE k \in 1..Len(t) : t[k] = RBrace /\ \A j \in (k + 1)..Len(t) : t[j] # RBrace

\* The substring from the first { to the last }.
Between(t) == SubSeq(t, FirstLBrace(t), LastRBrace(t))

\* The tokens before the first { and after the last }.
Around(t) ==
    {t[k] : k \in (1..(FirstLBrace(t) - 1)) \cup ((LastRBrace(t) + 1)..Len(t))}

\* The text is a JSON object with only the given tokens before and after it.
ObjectAmong(t, wrapping) ==
    /\ HasBraces(t)
    /\ FirstLBrace(t) < LastRBrace(t)
    /\ JsonLoads(Between(t)) # JSONDecodeError
    /\ Around(t) \subseteq wrapping

\* C7 as stated: for a text that is a JSON object, optionally in Markdown
\* fences and optionally with prose before or after it, the clean-up returns
\* the parse of the substring from the first { to the last }.
C7_FirstToLastBrace ==
    (pc = "extracted" /\ ObjectAmong(response_text, {FenceJson, Fence, Newline, Prose}))
        => parsed = JsonLoads(Between(response_text))

\* C7 amended: for a text that is a JSON object optionally wrapped in Markdown
\* fences and white space, the clean-up (remove the fence markers, strip,
\* json.loads) returns that object, and the fenced {"score":7} of the round
\* trip yields {"score":7}; nothing is cut at the first { and the last }, so
\* with prose before or after the object json.loads fails.
C7_FencesOnly ==
    pc = "extracted" =>
        /\ ObjectAmong(response_text, {FenceJson, Fence, Newline})
              => parsed = JsonLoads(Between(response_text))
        /\ (/\ ObjectAmong(response_text, {FenceJson, Fence, Newline, Prose})
            /\ Prose \in Around(response_text))
              => parsed = JSONDecodeError
        /\ response_text = ExampleText => parsed = ("score" :> 7)

\* The round trip of the fenced {"score":7}.
C7_Witness ==
    /\ pc = "extracted"
    /\ response_text = ExampleText
    /\ parsed = ("score" :> 7)

-----------------------------------------------------------------------------
(* C8 *)

Returned == pc \in {"after_analysis", "after_content"}

\* C8: a call of robust_generate_content tries the models of the list in
\* their order, each at most once (the names tried are a prefix of the list,
\* and while the loop runs every attempt so far has failed); after the first
\* attempt that succeeds no attempt is added; the call returns the value of
\* that attempt, or None once all five models have failed; and the call always
\* returns.
C8_OrderedBoundedFallback ==
    /\ [](/\ IsPrefix(attempts, models_to_try)
          /\ pc = "gen" => Len(attempts) = model_i
          /\ Returned =>
                IF Len(attempts) = model_i
                THEN /\ model_i = Len(models_to_try)
                     /\ gen_return = None
                ELSE /\ Len(attempts) = model_i + 1
                     /\ gen_return \notin {None, JSONDecodeError})
    /\ [][Returned => (attempts' = attempts \/ attempts' = << >>)]_vars
    /\ (pc = "gen") ~> Returned

\* The third model succeeded after two failures.
C8_Witness ==
    /\ pc = "after_analysis"
    /\ attempts = SubSeq(models_to_try, 1, 3)
    /\ gen_return = Analysis(9)

-----------------------------------------------------------------------------
(* C9 *)

\* The returns of process_call_workflow before or instead of the write-back.
NoResultWritten ==
    {"download", "upload", "poll", "all_models_failed", "empty_analysis", "writeback"}

\* C9: the sheet changes only in the write-back, which leaves every other row
\* and the columns A to C of the call's own row (the pending row its URL came
\* from) as they were and sets the columns D, E, F of that row to "Processed",
\* the score and the summary, whatever they held; the row of a call whose
\* analysis gave no result stays Pending.
C9_WriteBackFrame ==
    /\ [][sheet' # sheet =>
            /\ pc = "writeback"
            /\ Truthy(analysis_data)
            /\ Len(sheet') = Len(sheet)
            /\ sheet[row_num][2] = CurCall.url
            /\ sheet[row_num][4] = "Pending"
            /\ \A k \in 1..Len(sheet) :
                  IF k = row_num
                  THEN /\ \A c \in 1..3 : sheet'[k][c] = sheet[k][c]
                       /\ sheet'[k][4] = "Processed"
                       /\ sheet'[k][5] = << DictGet(analysis_data, "score", 0) >>
                       /\ sheet'[k][6] = DictGet(analysis_data, "transcript_summary", "")
                  ELSE sheet'[k] = sheet[k]]_vars
    /\ [](\A j \in 1..Len(outcomes) :
             outcomes[j].why \in NoResultWritten => sheet[outcomes[j].row][4] = "Pending")

\* The analysis of row 2 has been written over the old score and summary of
\* the row, and row 1, whose analysis gave no result, is as it was.
C9_Witness ==
    /\ pc = "score_check"
    /\ row_num = 2
    /\ sheet[1] = RescoredRow
    /\ sheet[2] = MkRow(<<"6", "0", "0">>, "Processed", <<9>>, "s")
    /\ Len(outcomes) = 1

-----------------------------------------------------------------------------
(* C10 *)

CountsTowardTarget(o) == HasContent(o) /\ ScoreOf(o) >= ScoreThreshold

\* C10: with a target of 0 or more, at most target_posts notifications are
\* posted; only calls that were
\* analyzed with a score of at least 6 and had content generated count toward
\* the target; once the count has reached the target main stops without
\* downloading, analyzing or writing back another call; and the rows of the
\* calls not yet taken from the queue are Pending.
C10_TargetStops ==
    /\ [](pc \notin {"start", "get_calls"} =>
             /\ target_posts >= 0 => Len(slack) <= target_posts
             /\ processed_count = Len(slack)
             /\ processed_count <= Len(SelectSeq(outcomes, CountsTowardTarget))
             /\ \A k \in (call_i + 2)..Len(calls) : sheet[calls[k].row][4] = "Pending"
             /\ pc \in {"loop", "done"} =>
                   \A k \in (call_i + 1)..Len(calls) : sheet[calls[k].row][4] = "Pending")
    /\ [][(pc \notin {"start", "get_calls"} /\ processed_count >= target_posts) =>
              /\ pc' = "done"
              /\ sheet' = sheet
              /\ outcomes' = outcomes
              /\ slack' = slack
              /\ files' = files]_vars

\* With a target of 1, one notification was posted and main finished with a
\* call left in the queue, its row Pending.
C10_Witness ==
    /\ pc = "done"
    /\ target_posts = 1
    /\ Len(slack) = 1
    /\ call_i < Len(calls)
    /\ sheet[calls[call_i + 1].row][4] = "Pending"

=============================================================================
